---- MODULE Spec2Model ----
(***************************************************************************)
(* Model of problem_v1/build_tower.py: build() reads a JSON configuration, *)
(* derives the tower dimensions, appends primitives (pole, two top rings,  *)
(* struts, lower levels, antennas) to the list `parts`, filters the None   *)
(* entries, concatenates and exports, then prints a summary.  The module   *)
(* also covers the __main__ exception handler.                             *)
(*                                                                         *)
(* Python floats are IEEE-754 binary floating point numbers with           *)
(* round-to-nearest-even.  They are modelled as records [m, e] standing    *)
(* for m * 2^e with a significand of Prec bits (CPython: 53) and an        *)
(* unbounded exponent (no overflow, underflow, NaN or signed zero).        *)
(* Every arithmetic operation rounds its exact result, as the hardware     *)
(* does.                                                                   *)
(***************************************************************************)
EXTENDS Integers, Sequences, FiniteSets, TLC

\* Width of the significand of the modelled floats, in bits.
Prec == 8
\* Largest per-sector antenna count of the enumerated configurations.
MaxCount == 2
\* Largest num_levels of the enumerated configurations.
MaxLevels == 4

-----------------------------------------------------------------------------
(* Evaluation order.  Python evaluates the arguments of a call once, before *)
(* the call.  The operators below do the same: an argument is bound to its  *)
(* value before the body reads it.                                          *)

Val(S) == CHOOSE v \in S : TRUE

Bind1(Op(_), x) == Val({Op(a) : a \in {x}})

Bind2(Op(_, _), x, y) == Val({Op(a, b) : a \in {x}, b \in {y}})

Bind3(Op(_, _, _), x, y, z) == Val({Op(a, b, c) : a \in {x}, b \in {y}, c \in {z}})

-----------------------------------------------------------------------------
(* Floating point arithmetic *)

Pow2[n \in Int] == IF n <= 0 THEN 1 ELSE 2 * Pow2[n - 1]

BitLen[a \in Int] == IF a <= 0 THEN 0 ELSE 1 + BitLen[a \div 2]

Abs(i) == IF i < 0 THEN -i ELSE i

Sgn(i) == IF i < 0 THEN -1 ELSE IF i > 0 THEN 1 ELSE 0

Zero == [m |-> 0, e |-> 0]

\* Round, for a significand a of bl > Prec bits: the low bl - Prec bits are
\* dropped; ties go to the even significand.
RoundBits(sgn, a, e, sticky, bl) ==
    LET sh   == bl - Prec
        q    == a \div Pow2[sh]
        r    == a % Pow2[sh]
        half == Pow2[sh - 1]
        up   == r > half \/ (r = half /\ (sticky \/ q % 2 = 1))
        q1   == IF up THEN q + 1 ELSE q
    IN IF q1 = Pow2[Prec]
       THEN [m |-> sgn * Pow2[Prec - 1], e |-> e + sh + 1]
       ELSE [m |-> sgn * q1, e |-> e + sh]

\* The float nearest to sgn * (a + eps) * 2^e, where 0 < eps < 1 if sticky
\* and eps = 0 otherwise.
Round(sgn, a, e, sticky) ==
    Bind2(LAMBDA av, bl :
              IF av = 0 THEN Zero
              ELSE IF bl <= Prec
                   THEN [m |-> sgn * av * Pow2[Prec - bl], e |-> e - (Prec - bl)]
                   ELSE RoundBits(sgn, av, e, sticky, bl),
          a, BitLen[a])

FNeg(x) == Bind1(LAMBDA a : [m |-> -a.m, e |-> a.e], x)

FAbs(x) == Bind1(LAMBDA a : [m |-> Abs(a.m), e |-> a.e], x)

\* x + y for nonzero x, y with x.e >= y.e.  When y lies more than Prec + 2
\* binary places below x it only decides the direction of rounding.
FAddOrd(x, y) ==
    IF x.e - y.e <= Prec + 2
    THEN Bind1(LAMBDA s : Round(Sgn(s), Abs(s), y.e, FALSE),
               x.m * Pow2[x.e - y.e] + y.m)
    ELSE IF Sgn(x.m) = Sgn(y.m)
         THEN Round(Sgn(x.m), 4 * Abs(x.m), x.e - 2, TRUE)
         ELSE Round(Sgn(x.m), 4 * Abs(x.m) - 1, x.e - 2, TRUE)

FAdd(x, y) ==
    Bind2(LAMBDA a, b :
              IF a.m = 0 THEN b
              ELSE IF b.m = 0 THEN a
              ELSE IF a.e >= b.e THEN FAddOrd(a, b) ELSE FAddOrd(b, a),
          x, y)

FSub(x, y) == FAdd(x, FNeg(y))

FMul(x, y) ==
    Bind2(LAMBDA a, b :
              Round(Sgn(a.m) * Sgn(b.m), Abs(a.m) * Abs(b.m), a.e + b.e, FALSE),
          x, y)

\* Long division, eight quotient bits a step (den < 2^23), until Prec + 2
\* bits are significant; a nonzero remainder is the sticky bit.
RECURSIVE DivBits(_, _, _, _, _)
DivBits(sgn, q, r, den, e) ==
    IF BitLen[q] >= Prec + 2
    THEN Round(sgn, q, e, r # 0)
    ELSE IF r = 0 /\ q # 0
         THEN Round(sgn, q, e, FALSE)
         ELSE Bind3(LAMBDA q2, r2, e2 : DivBits(sgn, q2, r2, den, e2),
                    256 * q + (256 * r) \div den, (256 * r) % den, e - 8)

\* The float nearest to num / den: a decimal literal, float() of a JSON
\* number, or the true division of two ints.
FromRat(num, den) ==
    Bind2(LAMBDA n, d :
              IF n = 0 THEN Zero
              ELSE Bind3(LAMBDA sg, an, ad :
                             DivBits(sg, an \div ad, an % ad, ad, 0),
                         Sgn(n) * Sgn(d), Abs(n), Abs(d)),
          num, den)

FromInt(n) == FromRat(n, 1)

FDiv(x, y) ==
    Bind2(LAMBDA a, b :
              IF a.m = 0 THEN Zero
              ELSE Bind3(LAMBDA sg, an, ad :
                             DivBits(sg, an \div ad, an % ad, ad, a.e - b.e),
                         Sgn(a.m) * Sgn(b.m), Abs(a.m), Abs(b.m)),
          x, y)

RECURSIVE ISqrt(_, _, _)
ISqrt(n, lo, hi) ==
    IF lo >= hi THEN lo
    ELSE Bind1(LAMBDA mid :
                   IF mid * mid <= n THEN ISqrt(n, mid, hi)
                   ELSE ISqrt(n, lo, mid - 1),
               (lo + hi + 1) \div 2)

\* The shift s makes x.m * 2^s a radicand of at least 2 * Prec + 3 bits
\* with an even exponent.
FSqrtPos(x, s) ==
    Bind2(LAMBDA rad, root : Round(1, root, (x.e - s) \div 2, root * root # rad),
          x.m * Pow2[s], ISqrt(x.m * Pow2[s], 0, Pow2[Prec + 2]))

FSqrt(x) ==
    Bind1(LAMBDA a :
              IF a.m <= 0 THEN Zero
              ELSE FSqrtPos(a, IF (a.e - (Prec + 3)) % 2 = 0
                               THEN Prec + 3 ELSE Prec + 4),
          x)

\* The sign of a correctly rounded difference is the sign of the exact one.
FLt(x, y) == FSub(x, y).m < 0

FLe(x, y) == FSub(x, y).m <= 0

FGe(x, y) == FLe(y, x)

\* x * 2^k, exact.
Scale(x, k) ==
    Bind1(LAMBDA a : IF a.m = 0 THEN Zero ELSE [m |-> a.m, e |-> a.e + k], x)

-----------------------------------------------------------------------------
(* numpy vectors of three floats *)

ZeroVec == <<Zero, Zero, Zero>>

VSub(b, a) ==
    Bind2(LAMBDA p, q : <<FSub(p[1], q[1]), FSub(p[2], q[2]), FSub(p[3], q[3])>>,
          b, a)

VAdd(a, b) ==
    Bind2(LAMBDA p, q : <<FAdd(p[1], q[1]), FAdd(p[2], q[2]), FAdd(p[3], q[3])>>,
          a, b)

VMul(v, s) ==
    Bind2(LAMBDA p, c : <<FMul(p[1], c), FMul(p[2], c), FMul(p[3], c)>>, v, s)

VDiv(v, s) ==
    Bind2(LAMBDA p, c : <<FDiv(p[1], c), FDiv(p[2], c), FDiv(p[3], c)>>, v, s)

\* np.linalg.norm of a 1-D array: the square root of the sum of squares.
Norm(v) ==
    Bind1(LAMBDA p :
              FSqrt(FAdd(FAdd(FMul(p[1], p[1]), FMul(p[2], p[2])),
                         FMul(p[3], p[3]))),
          v)

\* np.cross(a, b)
Cross(a, b) ==
    Bind2(LAMBDA p, q :
              << FSub(FMul(p[2], q[3]), FMul(p[3], q[2])),
                 FSub(FMul(p[3], q[1]), FMul(p[1], q[3])),
                 FSub(FMul(p[1], q[2]), FMul(p[2], q[1])) >>,
          a, b)

UnitZ == <<Zero, Zero, FromInt(1)>>

-----------------------------------------------------------------------------
(* The configuration file: JSON values as json.loads returns them *)

\* A JSON number n / (d * 2^s), a non-numeric string, null, or a key that is
\* absent.
Num(n, d) == [j |-> "num", n |-> n, d |-> d, s |-> 0]

\* The JSON number 1e-9 = 1 / (5^9 * 2^9)
Nano == [j |-> "num", n |-> 1, d |-> 1953125, s |-> 9]

Str == [j |-> "str", n |-> 0, d |-> 1, s |-> 0]

Null == [j |-> "null", n |-> 0, d |-> 1, s |-> 0]

Missing == [j |-> "missing", n |-> 0, d |-> 1, s |-> 0]

\* The value of "antennas": an object (its items in file order), a value
\* that is no object, or absent.
Obj(items) == [j |-> "obj", items |-> items]

NotObj == [j |-> "str", items |-> <<>>]

NoObj == [j |-> "missing", items |-> <<>>]

\* The exception float(v) / int(v) raises for a value, cfg[key] for an
\* absent key; "none" when the conversion succeeds.
ConvError(raw) ==
    IF raw.j = "missing" THEN "KeyError"
    ELSE IF raw.j = "str" THEN "ValueError"
    ELSE IF raw.j = "null" THEN "TypeError"
    ELSE "none"

\* float(v)
ToFloat(raw) == Scale(FromRat(raw.n, raw.d), -raw.s)

\* int(v): truncation toward zero
ToInt(raw) ==
    IF raw.n >= 0 THEN raw.n \div (raw.d * Pow2[raw.s])
    ELSE -((-raw.n) \div (raw.d * Pow2[raw.s]))

\* str.upper() on the sector keys
Upper(key) ==
    IF key = "a" THEN "A"
    ELSE IF key = "b" THEN "B"
    ELSE IF key = "c" THEN "C"
    ELSE IF key = "d" THEN "D"
    ELSE key

\* Variant: the keys are kept as written, not upper-cased.
CountsExactKeys(items) ==
    [key \in {items[i][1] : i \in 1..Len(items)} |->
        LET last == CHOOSE i \in 1..Len(items) :
                        /\ items[i][1] = key
                        /\ \A h \in (i + 1)..Len(items) : items[h][1] # key
        IN ToInt(items[last][2])]

\* {k.upper(): int(v) for k, v in items}: a later item overwrites an
\* earlier one with the same upper-cased key.
CountsOf(items) ==
    [key \in {Upper(items[i][1]) : i \in 1..Len(items)} |->
        LET last == CHOOSE i \in 1..Len(items) :
                        /\ Upper(items[i][1]) = key
                        /\ \A h \in (i + 1)..Len(items) : Upper(items[h][1]) # key
        IN ToInt(items[last][2])]

\* counts.get(side, 0)
Get(d, key, default) == IF key \in DOMAIN d THEN d[key] ELSE default

\* First exception of the dict comprehension over the items, "none" if all
\* values convert.
RECURSIVE ItemsError(_)
ItemsError(items) ==
    IF items = <<>> THEN "none"
    ELSE IF ConvError(Head(items)[2]) # "none" THEN ConvError(Head(items)[2])
    ELSE ItemsError(Tail(items))

AntennasError(raw) ==
    IF raw.j = "missing" THEN "KeyError"
    ELSE IF raw.j # "obj" THEN "AttributeError"
    ELSE ItemsError(raw.items)

\* cfg.get("num_levels", 4)
DefaultLevels == 4


\* Variant: a num_levels that does not convert is ignored.
LevelsErrorIgnored(raw) == "none"

LevelsError(raw) == IF raw.j = "missing" THEN "none" ELSE ConvError(raw)

\* The exception lines 60-65 raise, in evaluation order; "none" if the
\* configuration loads.
LoadError(c) ==
    IF ConvError(c.pole_height) # "none" THEN ConvError(c.pole_height)
    ELSE IF ConvError(c.pole_radius) # "none" THEN ConvError(c.pole_radius)
    ELSE IF ConvError(c.antenna_distance_from_pole) # "none"
         THEN ConvError(c.antenna_distance_from_pole)
    ELSE IF ConvError(c.antenna_height) # "none" THEN ConvError(c.antenna_height)
    ELSE IF AntennasError(c.antennas) # "none" THEN AntennasError(c.antennas)
    ELSE LevelsError(c.num_levels)

-----------------------------------------------------------------------------
(* The configurations the model is run on *)

Cfg(ph, pr, tr, ah, an, nl) ==
    [pole_height |-> ph, pole_radius |-> pr, antenna_distance_from_pole |-> tr,
     antenna_height |-> ah, antennas |-> an, num_levels |-> nl]

\* The end-to-end example: the dimensions generate_config.py writes, with
\* two antennas on A, none on B and five on C.
ExampleCfg ==
    Cfg(Num(20, 1), Num(1, 10), Num(14, 10), Num(1, 5),
        Obj(<< <<"A", Num(2, 1)>>, <<"B", Num(0, 1)>>, <<"C", Num(5, 1)>> >>),
        Num(4, 1))

\* A sector has a count -1..MaxCount or is absent from the mapping (the
\* code Absent, one above every count).
Absent == MaxCount + 1

CountChoices == -1..Absent

Item(key, c) == IF c = Absent THEN <<>> ELSE << <<key, Num(c, 1)>> >>

\* Pairs (pole_radius, antenna_distance_from_pole): the usual tower, a ring
\* as thin as the pole, and a ring a billion times smaller than one unit.
RadiusPairs ==
    { <<Num(1, 10), Num(14, 10)>>, <<Num(1, 2), Num(1, 2)>>,
      <<Num(1, 10), Nano>> }

AntennaCfgs ==
    { Cfg(Num(20, 1), rp[1], rp[2], Num(1, 5),
          Obj(Item("A", ca) \o Item("B", cb) \o Item("C", cc)), Num(1, 1)) :
        rp \in RadiusPairs, ca \in CountChoices, cb \in CountChoices,
        cc \in CountChoices }

\* Mappings with lower-case, repeated, fractional and foreign keys.
KeyCfgs ==
    { Cfg(Num(20, 1), Num(1, 10), Num(14, 10), Num(1, 5), Obj(items), Num(1, 1)) :
        items \in { << <<"a", Num(2, 1)>>, <<"c", Num(1, 1)>> >>,
                    << <<"a", Num(1, 1)>>, <<"A", Num(2, 1)>> >>,
                    << <<"A", Num(2, 1)>>, <<"a", Num(0, 1)>> >>,
                    << <<"B", Num(5, 2)>>, <<"C", Num(-1, 2)>> >>,
                    << <<"D", Num(2, 1)>>, <<"b", Num(1, 1)>> >> } }

PoleHeights == {Num(20, 1), Nano}

AntennaHeights == {Num(1, 5), Num(8, 1), Nano, Num(0, 1)}

NumLevels == {Missing, Num(5, 2)} \cup {Num(i, 1) : i \in 0..MaxLevels}

LevelCfgs ==
    { Cfg(ph, Num(1, 10), Num(14, 10), ah, Obj(<< <<"A", Num(1, 1)>> >>), nl) :
        ph \in PoleHeights, ah \in AntennaHeights, nl \in NumLevels }

OneAntenna == Obj(<< <<"A", Num(1, 1)>> >>)

\* The base dimensions with one field absent, unconvertible or negative.
Faults(neg) == {Missing, Str, Null, neg}

FaultCfgs ==
    { Cfg(v, Num(1, 10), Num(14, 10), Num(1, 5), OneAntenna, Num(2, 1)) :
        v \in Faults(Num(-20, 1)) }
    \cup
    { Cfg(Num(20, 1), v, Num(14, 10), Num(1, 5), OneAntenna, Num(2, 1)) :
        v \in Faults(Num(-1, 10)) }
    \cup
    { Cfg(Num(20, 1), Num(1, 10), v, Num(1, 5), OneAntenna, Num(2, 1)) :
        v \in Faults(Num(-14, 10)) }
    \cup
    { Cfg(Num(20, 1), Num(1, 10), Num(14, 10), v, OneAntenna, Num(2, 1)) :
        v \in Faults(Num(-1, 5)) }
    \cup
    { Cfg(Num(20, 1), Num(1, 10), Num(14, 10), Num(1, 5), v, Num(2, 1)) :
        v \in { NoObj, NotObj,
                Obj(<< <<"A", Num(1, 1)>>, <<"B", Str>> >>),
                Obj(<< <<"A", Null>>, <<"B", Num(1, 1)>> >>) } }
    \cup
    { Cfg(Num(20, 1), Num(1, 10), Num(14, 10), Num(1, 5), OneAntenna, v) :
        v \in {Str, Null} }

\* The example dimensions with more levels than fit above the pole base.
TallCfg ==
    Cfg(Num(20, 1), Num(1, 10), Num(14, 10), Num(1, 5), OneAntenna, Num(11, 1))

Configs ==
    {ExampleCfg, TallCfg} \cup AntennaCfgs \cup KeyCfgs \cup LevelCfgs \cup FaultCfgs

-----------------------------------------------------------------------------
(* State of one run of build() under __main__ *)

VARIABLES
    pc,          \* position in build() / __main__
    cfg,         \* json.loads of the configuration file
    pole_h, pole_r, top_r, ant_h, counts, levels,
    tube_r, beam_z, beam_y, ant_r, gap_top, z_top, z_mid, level_gap, inner_r0,
    parts,       \* the list of primitives (None entries included)
    ring_i,      \* index of z_ring in (z_top, z_mid)
    ring0,       \* the three ring0 vertices
    lvl,         \* loop variable of the lower levels
    z_ant, mount_off, placed,
    edge_idx,    \* loop variable of the sectors
    sec,         \* n, v0, edge_vec, normal of the current sector
    k,           \* loop variable of the antennas of a sector
    scene,       \* the concatenated mesh (the parts it is made of)
    exported,    \* scene.export() has written the output file
    summary,     \* what line 162 prints
    err,         \* the exception build() raised
    exit_code    \* process exit status; -1 while running

params == <<pole_h, pole_r, top_r, ant_h, counts, levels>>

derived ==
    <<tube_r, beam_z, beam_y, ant_r, gap_top, z_top, z_mid, level_gap, inner_r0>>

antvars == <<z_ant, mount_off, placed, edge_idx, sec, k>>

outs == <<scene, exported, summary, err, exit_code>>

vars == <<pc, cfg, params, derived, parts, ring_i, ring0, lvl, antvars, outs>>

NoSector == [n |-> 0, v0 |-> ZeroVec, edge_vec |-> ZeroVec, normal |-> ZeroVec]

NoSummary == [placed |-> 0, A |-> 0, B |-> 0, C |-> 0]

Init ==
    /\ pc = "load"
    /\ cfg \in Configs
    /\ pole_h = Zero /\ pole_r = Zero /\ top_r = Zero /\ ant_h = Zero
    /\ counts = <<>> /\ levels = 0
    /\ tube_r = Zero /\ beam_z = Zero /\ beam_y = Zero /\ ant_r = Zero
    /\ gap_top = Zero /\ z_top = Zero /\ z_mid = Zero
    /\ level_gap = Zero /\ inner_r0 = Zero
    /\ parts = <<>>
    /\ ring_i = 0
    /\ ring0 = <<ZeroVec, ZeroVec, ZeroVec>>
    /\ lvl = 0
    /\ z_ant = Zero /\ mount_off = Zero /\ placed = 0
    /\ edge_idx = 0 /\ sec = NoSector /\ k = 0
    /\ scene = <<>> /\ exported = FALSE /\ summary = NoSummary
    /\ err = "none" /\ exit_code = -1

-----------------------------------------------------------------------------
(* Constants and helper primitives of build_tower.py *)

GAP_TOP_FACTOR == FromRat(6, 10)

\* 1e-9 = 5^-9 * 2^-9, the length below which tube and box_beam return None
MinLength == Scale(FromRat(1, 1953125), -9)

\* 1e-6 = 5^-6 * 2^-6, the tolerance of the level-skipping test
LevelTol == Scale(FromRat(1, 15625), -6)

\* What np.cos / np.sin return for np.deg2rad([30, 150, 270]) in binary64,
\* rounded to Prec bits: 0.8660254037844387, 0.49999999999999994,
\* -0.8660254037844387, 0.49999999999999994, -1.8369701987210297e-16, -1.0.
Cos30 == FromRat(866025, 1000000)

Sin30 == FromRat(1, 2)

Cos270 == FNeg(Scale(FromRat(1654596, 1000000), -53))

Sin270 == FromInt(-1)

\* tri_xy(r): the rows (cos, sin) * r
tri_xy(r) ==
    Bind1(LAMBDA c : << <<FMul(Cos30, c), FMul(Sin30, c)>>,
                        <<FMul(FNeg(Cos30), c), FMul(Sin30, c)>>,
                        <<FMul(Cos270, c), FMul(Sin270, c)>> >>,
          r)

\* np.column_stack((tri_xy(r), np.full(3, z)))
RingAt(r, z) ==
    Bind2(LAMBDA xy, h : [i \in 1..3 |-> <<xy[i][1], xy[i][2], h>>], tri_xy(r), z)

\* Index (1..3) of vertex (i + 1) % 3 for the vertex with index i (1..3).
NextVertex(i) == ((i - 1 + 1) % 3) + 1

\* An entry of parts.  kind is the primitive or "None"; site names the call
\* that made it; a and b are the arguments of tube / box_beam (for an
\* antenna: the mount position and the anchor), t the mount parameter.
Part(kind, site, l, a, b, t) ==
    [kind |-> kind, site |-> site, lvl |-> l, a |-> a, b |-> b, t |-> t]

\* tube(a, b, r): None if |b - a| < 1e-9, else a cylinder from a to b
tube(a, b, site, l) ==
    Bind3(LAMBDA p, q, L :
              IF FLt(L, MinLength)
              THEN Part("None", site, l, p, q, Zero)
              ELSE Part("tube", site, l, p, q, Zero),
          a, b, Norm(VSub(b, a)))

\* box_beam(a, b, thk_z, thk_y): None if |b - a| < 1e-9, else a box
box_beam(a, b, site, l) ==
    Bind3(LAMBDA p, q, L :
              IF FLt(L, MinLength)
              THEN Part("None", site, l, p, q, Zero)
              ELSE Part("box", site, l, p, q, Zero),
          a, b, Norm(VSub(b, a)))

-----------------------------------------------------------------------------
(* build(): loading and derived dimensions *)

\* Lines 57-65 when a conversion raises: the exception leaves build().
LoadFail ==
    /\ pc = "load"
    /\ LoadError(cfg) # "none"
    /\ err' = LoadError(cfg)
    /\ pc' = "raised"
    /\ UNCHANGED <<cfg, params, derived, parts, ring_i, ring0, lvl, antvars,
                   scene, exported, summary, exit_code>>

\* Lines 57-65 when every conversion succeeds.
Load ==
    /\ pc = "load"
    /\ LoadError(cfg) = "none"
    /\ pole_h' = ToFloat(cfg.pole_height)
    /\ pole_r' = ToFloat(cfg.pole_radius)
    /\ top_r' = ToFloat(cfg.antenna_distance_from_pole)
    /\ ant_h' = ToFloat(cfg.antenna_height)
    /\ counts' = CountsOf(cfg.antennas.items)
    /\ levels' = IF cfg.num_levels.j = "missing" THEN DefaultLevels
                 ELSE ToInt(cfg.num_levels)
    /\ pc' = "derive"
    /\ UNCHANGED <<cfg, derived, parts, ring_i, ring0, lvl, antvars, outs>>

\* Variant: z_mid = z_top + gap_top
RingOneAbove(top, gap) == FAdd(top, gap)

\* z_mid = z_top - gap_top
RingOneHeight(top, gap) == FSub(top, gap)

\* Lines 68-80
Derive ==
    /\ pc = "derive"
    /\ tube_r' = FMul(pole_r, FromRat(40, 100))
    /\ beam_z' = FMul(pole_r, FromRat(70, 100))
    /\ beam_y' = FMul(pole_r, FromRat(8, 100))
    /\ ant_r' = FMul(pole_r, FromRat(15, 100))
    /\ gap_top' = FMul(GAP_TOP_FACTOR, ant_h)
    /\ z_top' = pole_h
    /\ z_mid' = RingOneHeight(pole_h, FMul(GAP_TOP_FACTOR, ant_h))
    /\ level_gap' = FMul(pole_h, FromRat(15, 100))
    /\ inner_r0' = FMul(pole_r, FromInt(3))
    /\ parts' = <<>>
    /\ pc' = "pole"
    /\ UNCHANGED <<cfg, params, ring_i, ring0, lvl, antvars, outs>>

-----------------------------------------------------------------------------
(* build(): pole, top rings, struts *)

\* Lines 83-85
BuildPole ==
    /\ pc = "pole"
    /\ parts' = Append(parts,
                   Part("cylinder", "pole", 0,
                        <<Zero, Zero, FDiv(pole_h, FromInt(2))>>, ZeroVec, Zero))
    /\ ring_i' = 0
    /\ pc' = "rings"
    /\ UNCHANGED <<cfg, params, derived, ring0, lvl, antvars, outs>>

\* The six parts lines 91-93 append for the ring at height z.
RingPair(ring_3d, z, ri, i) ==
    << box_beam(ring_3d[i], ring_3d[NextVertex(i)], "ring_beam", ri),
       tube(ring_3d[i], <<Zero, Zero, z>>, "ring_spoke", ri) >>

RingParts(z, ri) ==
    Bind1(LAMBDA ring_3d : RingPair(ring_3d, z, ri, 1) \o RingPair(ring_3d, z, ri, 2)
                               \o RingPair(ring_3d, z, ri, 3),
          RingAt(top_r, z))

\* Lines 88-93, one iteration of the loop over (z_top, z_mid)
BuildRing ==
    /\ pc = "rings"
    /\ ring_i < 2
    /\ parts' = parts \o RingParts(IF ring_i = 0 THEN z_top ELSE z_mid, ring_i)
    /\ ring_i' = ring_i + 1
    /\ pc' = IF ring_i = 1 THEN "struts" ELSE "rings"
    /\ UNCHANGED <<cfg, params, derived, ring0, lvl, antvars, outs>>

\* Lines 96-100
BuildStruts ==
    /\ pc = "struts"
    /\ \E r0 \in {RingAt(top_r, z_top)}, ring1 \in {RingAt(top_r, z_mid)} :
          /\ ring0' = r0
          /\ parts' = parts \o [i \in 1..3 |-> tube(r0[i], ring1[i], "strut", 0)]
    /\ lvl' = 1
    /\ pc' = "levels"
    /\ UNCHANGED <<cfg, params, derived, ring_i, antvars, outs>>

-----------------------------------------------------------------------------
(* build(): lower tubular levels, lines 103-118 *)

\* z = pole_h - lvl * level_gap
LevelZ(l) == FSub(pole_h, FMul(FromInt(l), level_gap))

\* z >= z_mid - 1e-6
SkipsLevel(l) == FGe(LevelZ(l), FSub(z_mid, LevelTol))

\* r_in = inner_r0 * (1 - 0.10 * lvl)
LevelRIn(l) ==
    FMul(inner_r0, FSub(FromInt(1), FMul(FromRat(10, 100), FromInt(l))))

\* r_out = top_r * (1 - 0.05 * lvl)
LevelROut(l) ==
    FMul(top_r, FSub(FromInt(1), FMul(FromRat(5, 100), FromInt(l))))

\* The twelve tubes lines 114-118 add for level l.
LevelFour(in_3d, out_3d, z, l, i) ==
    << tube(in_3d[i], in_3d[NextVertex(i)], "lvl_in", l),
       tube(out_3d[i], out_3d[NextVertex(i)], "lvl_out", l),
       tube(in_3d[i], out_3d[i], "lvl_radial", l),
       tube(in_3d[i], <<Zero, Zero, z>>, "lvl_spoke", l) >>

LevelParts(l) ==
    Bind1(LAMBDA z :
              Bind2(LAMBDA in_3d, out_3d :
                        LevelFour(in_3d, out_3d, z, l, 1)
                        \o LevelFour(in_3d, out_3d, z, l, 2)
                        \o LevelFour(in_3d, out_3d, z, l, 3),
                    RingAt(LevelRIn(l), z), RingAt(LevelROut(l), z)),
          LevelZ(l))

\* Variant: a level at or above ring1 ends the loop (break).
LevelBreak ==
    /\ pc = "levels"
    /\ lvl < levels
    /\ SkipsLevel(lvl)
    /\ lvl' = levels
    /\ UNCHANGED <<pc, cfg, params, derived, parts, ring_i, ring0, antvars, outs>>

\* Lines 104-106: the level would overlap the mid ring; continue.
LevelSkip ==
    /\ pc = "levels"
    /\ lvl < levels
    /\ SkipsLevel(lvl)
    /\ lvl' = lvl + 1
    /\ UNCHANGED <<pc, cfg, params, derived, parts, ring_i, ring0, antvars, outs>>

\* Lines 104-118: the level is built.
LevelEmit ==
    /\ pc = "levels"
    /\ lvl < levels
    /\ ~SkipsLevel(lvl)
    /\ parts' = parts \o LevelParts(lvl)
    /\ lvl' = lvl + 1
    /\ UNCHANGED <<pc, cfg, params, derived, ring_i, ring0, antvars, outs>>

\* Line 103: range(1, levels) is exhausted.
LevelsDone ==
    /\ pc = "levels"
    /\ lvl >= levels
    /\ pc' = "antennas"
    /\ UNCHANGED <<cfg, params, derived, parts, ring_i, ring0, lvl, antvars, outs>>

-----------------------------------------------------------------------------
(* build(): antennas, lines 121-152 *)

Sides == <<"A", "B", "C">>

\* Variant: t = k / (n + 1)
MountParamFromZero(kk, n) == FromRat(kk, n + 1)

\* t = (k + 1) / (n + 1)
MountParam(kk, n) == FromRat(kk + 1, n + 1)

\* Variant: the operands of the cross product are exchanged.
SectorNormalInward(edge_dir) ==
    Bind1(LAMBDA c : VDiv(c, Norm(c)), Cross(UnitZ, edge_dir))

\* normal = np.cross(edge_dir, [0, 0, 1]); normal /= np.linalg.norm(normal)
SectorNormal(edge_dir) ==
    Bind1(LAMBDA c : VDiv(c, Norm(c)), Cross(edge_dir, UnitZ))

\* Variant: the height of the position is not overwritten.
MountPosOnRing0(anchor, normal, off, z) == VAdd(anchor, VMul(normal, off))

\* Variant: the offset is taken from the first vertex, not from the anchor.
MountPosFromAxis(anchor, normal, off, z) ==
    Bind1(LAMBDA pos : <<pos[1], pos[2], z>>, VMul(normal, off))

\* pos = anchor + normal * mount_off; pos[2] = z_ant
MountPos(anchor, normal, off, z) ==
    Bind1(LAMBDA pos : <<pos[1], pos[2], z>>, VAdd(anchor, VMul(normal, off)))

\* Lines 121-123
BeginAntennas ==
    /\ pc = "antennas"
    /\ z_ant' = FDiv(FAdd(z_top, z_mid), FromInt(2))
    /\ mount_off' = FAdd(FDiv(beam_y, FromInt(2)), ant_r)
    /\ placed' = 0
    /\ edge_idx' = 0
    /\ pc' = "sectors"
    /\ UNCHANGED <<cfg, params, derived, parts, ring_i, ring0, lvl, sec, k, outs>>

\* Lines 126-128: n <= 0, continue.
SectorSkip ==
    /\ pc = "sectors"
    /\ edge_idx < 3
    /\ Get(counts, Sides[edge_idx + 1], 0) <= 0
    /\ edge_idx' = edge_idx + 1
    /\ UNCHANGED <<pc, cfg, params, derived, parts, ring_i, ring0, lvl,
                   z_ant, mount_off, placed, sec, k, outs>>

\* Lines 126-140: the edge, its direction and its normal.
SectorBegin ==
    /\ pc = "sectors"
    /\ edge_idx < 3
    /\ Get(counts, Sides[edge_idx + 1], 0) > 0
    /\ \E edge_vec \in {VSub(ring0[NextVertex(edge_idx + 1)], ring0[edge_idx + 1])} :
          \E edge_dir \in {VDiv(edge_vec, Norm(edge_vec))} :
             sec' = [n |-> Get(counts, Sides[edge_idx + 1], 0),
                     v0 |-> ring0[edge_idx + 1],
                     edge_vec |-> edge_vec, normal |-> SectorNormal(edge_dir)]
    /\ k' = 0
    /\ pc' = "mount"
    /\ UNCHANGED <<cfg, params, derived, parts, ring_i, ring0, lvl,
                   z_ant, mount_off, placed, edge_idx, outs>>

\* Lines 142-152, one iteration: one half-cylinder is placed.
Mount ==
    /\ pc = "mount"
    /\ k < sec.n
    /\ \E t \in {MountParam(k, sec.n)} :
          \E anchor \in {VAdd(sec.v0, VMul(sec.edge_vec, t))} :
             \E pos \in {MountPos(anchor, sec.normal, mount_off, z_ant)} :
                parts' = Append(parts,
                            Part("half_cyl", Sides[edge_idx + 1], k, pos, anchor, t))
    /\ placed' = placed + 1
    /\ k' = k + 1
    /\ UNCHANGED <<pc, cfg, params, derived, ring_i, ring0, lvl,
                   z_ant, mount_off, edge_idx, sec, outs>>

\* Line 142: range(n) is exhausted; next sector.
SectorEnd ==
    /\ pc = "mount"
    /\ k >= sec.n
    /\ edge_idx' = edge_idx + 1
    /\ pc' = "sectors"
    /\ UNCHANGED <<cfg, params, derived, parts, ring_i, ring0, lvl,
                   z_ant, mount_off, placed, sec, k, outs>>

\* Line 125: the three sectors are done.
AntennasDone ==
    /\ pc = "sectors"
    /\ edge_idx >= 3
    /\ pc' = "export"
    /\ UNCHANGED <<cfg, params, derived, parts, ring_i, ring0, lvl, antvars, outs>>

-----------------------------------------------------------------------------
(* build(): export and summary; __main__ *)

\* Variant: nothing is filtered out.
KeepAll(ps) == ps

\* [p for p in parts if p is not None]
NotNone(ps) == SelectSeq(ps, LAMBDA p : p.kind # "None")

\* Lines 155-159: filter, concatenate, rotate, export.
Export ==
    /\ pc = "export"
    /\ parts' = NotNone(parts)
    /\ scene' = NotNone(parts)
    /\ exported' = TRUE
    /\ pc' = "summary"
    /\ UNCHANGED <<cfg, params, derived, ring_i, ring0, lvl, antvars,
                   summary, err, exit_code>>

\* Lines 161-163
Summary ==
    /\ pc = "summary"
    /\ summary' = [placed |-> placed, A |-> Get(counts, "A", 0),
                   B |-> Get(counts, "B", 0), C |-> Get(counts, "C", 0)]
    /\ pc' = "returned"
    /\ UNCHANGED <<cfg, params, derived, parts, ring_i, ring0, lvl, antvars,
                   scene, exported, err, exit_code>>

\* Lines 174-175: build() returned, the process ends normally.
MainReturn ==
    /\ pc = "returned"
    /\ exit_code' = 0
    /\ pc' = "exit"
    /\ UNCHANGED <<cfg, params, derived, parts, ring_i, ring0, lvl, antvars,
                   scene, exported, summary, err>>

\* Lines 176-178: the exception is reported and the process exits with 1.
MainExcept ==
    /\ pc = "raised"
    /\ exit_code' = 1
    /\ pc' = "exit"
    /\ UNCHANGED <<cfg, params, derived, parts, ring_i, ring0, lvl, antvars,
                   scene, exported, summary, err>>

Next ==
    \/ LoadFail
    \/ Load
    \/ Derive
    \/ BuildPole
    \/ BuildRing
    \/ BuildStruts
    \/ LevelSkip
    \/ LevelEmit
    \/ LevelsDone
    \/ BeginAntennas
    \/ SectorSkip
    \/ SectorBegin
    \/ Mount
    \/ SectorEnd
    \/ AntennasDone
    \/ Export
    \/ Summary
    \/ MainReturn
    \/ MainExcept

Spec == Init /\ [][Next]_vars

-----------------------------------------------------------------------------
(* Vocabulary of the properties *)

\* Indices of the antennas in parts, and those of one sector.
Antennas == {j \in DOMAIN parts : parts[j].kind = "half_cyl"}

AntennasOn(side) == {j \in Antennas : parts[j].site = side}

\* The count the configuration file gives a sector: the last item whose key
\* is the sector label in either case, as an integer; 0 without such an item.
SectorCount(side) ==
    LET items == cfg.antennas.items
        idx   == {i \in 1..Len(items) : Upper(items[i][1]) = side}
    IN IF idx = {} THEN 0
       ELSE ToInt(items[CHOOSE i \in idx : \A h \in idx : h <= i][2])

Positive(n) == IF n > 0 THEN n ELSE 0

\* The configuration is loadable: every required field is present and
\* every value is a number.
Loadable ==
    /\ cfg.pole_height.j = "num" /\ cfg.pole_radius.j = "num"
    /\ cfg.antenna_distance_from_pole.j = "num" /\ cfg.antenna_height.j = "num"
    /\ cfg.antennas.j = "obj"
    /\ \A i \in 1..Len(cfg.antennas.items) : cfg.antennas.items[i][2].j = "num"
    /\ cfg.num_levels.j \in {"num", "missing"}

\* The configuration is valid: loadable, the four dimensions positive, the
\* counts non-negative integers of sectors A, B, C, num_levels >= 1.
ValidCfg ==
    /\ Loadable
    /\ cfg.pole_height.n > 0 /\ cfg.pole_radius.n > 0
    /\ cfg.antenna_distance_from_pole.n > 0 /\ cfg.antenna_height.n > 0
    /\ \A i \in 1..Len(cfg.antennas.items) :
          /\ Upper(cfg.antennas.items[i][1]) \in {"A", "B", "C"}
          /\ cfg.antennas.items[i][2].n >= 0
          /\ cfg.antennas.items[i][2].d = 1
    /\ cfg.num_levels.j = "num" => (cfg.num_levels.d = 1 /\ cfg.num_levels.n >= 1)

\* Positions of build() after the antenna loop, and after the level loop.
AfterAntennas == {"export", "summary", "returned", "exit"}

AfterLevels == {"antennas", "sectors", "mount"} \cup AfterAntennas

\* The float x lies between the floats a and b, in either order.
Between(x, a, b) ==
    \/ FLe(a, x) /\ FLe(x, b)
    \/ FLe(b, x) /\ FLe(x, a)

\* The point p lies in the bounding box of ring0 edge i (1..3).
InEdgeBox(p, i) ==
    /\ Between(p[1], ring0[i][1], ring0[NextVertex(i)][1])
    /\ Between(p[2], ring0[i][2], ring0[NextVertex(i)][2])

-----------------------------------------------------------------------------
(* C1 *)

\* C1: once the antenna loop of a loaded configuration is over, sector s (in
\* the order A, B, C) has exactly n_s antennas when its count n_s > 0 and none
\* when n_s <= 0 or s is absent from the mapping; they sit on the ring0 edge
\* with the index of s, come in sector order, their total and `placed` are the
\* sum of the positive counts, and no exception was raised.
C1_AntennasPerSector ==
    /\ Loadable => (err = "none" /\ pc # "raised")
    /\ (pc \in AfterAntennas /\ err = "none") =>
          /\ \A i \in 1..3 :
                /\ Cardinality(AntennasOn(Sides[i])) = Positive(SectorCount(Sides[i]))
                /\ \A j \in AntennasOn(Sides[i]) : InEdgeBox(parts[j].b, i)
          /\ \A j1, j2 \in Antennas :
                (j1 < j2 /\ parts[j1].site # parts[j2].site) =>
                    \E i1, i2 \in 1..3 : /\ i1 < i2
                                         /\ parts[j1].site = Sides[i1]
                                         /\ parts[j2].site = Sides[i2]
          /\ Cardinality(Antennas) = Positive(SectorCount("A"))
                + Positive(SectorCount("B")) + Positive(SectorCount("C"))
          /\ placed = Cardinality(Antennas)

\* The end-to-end example has run: 2 antennas on A, 0 on B, 5 on C, 7 in all.
C1_Witness ==
    /\ pc = "exit" /\ cfg = ExampleCfg /\ placed = 7
    /\ Cardinality(AntennasOn("A")) = 2
    /\ Cardinality(AntennasOn("B")) = 0
    /\ Cardinality(AntennasOn("C")) = 5

-----------------------------------------------------------------------------
(* C2 *)

\* t = (kk + 1) / (n + 1) to the nearest float: |t - (kk+1)/(n+1)| <= ulp/2,
\* in integers (t = m * 2^e with e < 0).
NearestQuotient(t, kk, n) ==
    /\ t.e < 0
    /\ 2 * Abs(t.m * (n + 1) - (kk + 1) * Pow2[-t.e]) <= n + 1

\* C2: in a sector with count n > 0 the antenna with index kk (0-based) has
\* the mount parameter t = (kk + 1) / (n + 1), strictly between 0 and 1, and
\* the parameters increase strictly with the index.
C2_MountParams ==
    \A i \in 1..3 : \A j \in AntennasOn(Sides[i]) :
        LET t == parts[j].t
            n == SectorCount(Sides[i])
        IN /\ n > 0
           /\ NearestQuotient(t, parts[j].lvl, n)
           /\ t.m > 0
           /\ t.m < Pow2[-t.e]
           /\ \A h \in AntennasOn(Sides[i]) :
                 parts[h].lvl < parts[j].lvl => FLt(parts[h].t, t)

\* A sector with several antennas is complete.
C2_Witness ==
    /\ pc \in AfterAntennas
    /\ \E i \in 1..3 : Cardinality(AntennasOn(Sides[i])) >= MaxCount

-----------------------------------------------------------------------------
(* C3 *)

LevelSites == {"lvl_in", "lvl_out", "lvl_radial", "lvl_spoke"}

LevelEmitted(l) ==
    \E j \in DOMAIN parts : parts[j].site \in LevelSites /\ parts[j].lvl = l

\* z = pole_height - lvl * level_spacing >= ring1_height - 1e-6
AtOrAboveRing1(l) ==
    FGe(FSub(pole_h, FMul(FromInt(l), level_gap)), FSub(z_mid, LevelTol))

\* C3: a lower level is omitted exactly when its height is >= ring1_height -
\* 1e-6; a skipped level does not end the loop (after the loop every lvl in
\* 1..num_levels-1 has been decided); every emitted level lies strictly below
\* ring1.  Whether level lvl is emitted does not depend on num_levels, so a
\* larger num_levels only adds levels with larger lvl.
C3_LevelSkipping ==
    /\ pc = "levels" =>
          /\ \A l \in 1..(lvl - 1) : LevelEmitted(l) <=> ~AtOrAboveRing1(l)
          /\ \A j \in DOMAIN parts : parts[j].site \in LevelSites => parts[j].lvl < lvl
    /\ pc \in AfterLevels =>
          /\ lvl >= levels
          /\ \A l \in 1..(levels - 1) : LevelEmitted(l) <=> ~AtOrAboveRing1(l)
    /\ \A j \in DOMAIN parts :
          parts[j].site \in LevelSites =>
              /\ FLt(parts[j].a[3], z_mid)
              /\ parts[j].lvl \in 1..(levels - 1)

\* A level was skipped and a later one was emitted.
C3_Witness ==
    /\ pc \in AfterLevels
    /\ \E l1, l2 \in 1..(levels - 1) :
          l1 < l2 /\ ~LevelEmitted(l1) /\ LevelEmitted(l2)

-----------------------------------------------------------------------------
(* C4 *)

\* C4: when a required field is missing or a value does not convert, build
\* raises before any primitive exists: parts stays empty, nothing is
\* concatenated, nothing is exported, and the process ends with status 1.
C4_FailFast ==
    ~Loadable =>
        /\ parts = <<>> /\ scene = <<>> /\ ~exported
        /\ pc \in {"load", "raised", "exit"}
        /\ pc # "load" => err # "none"
        /\ pc = "exit" => exit_code = 1

\* A mapping whose second value does not convert has been rejected.
C4_Witness ==
    /\ pc = "exit" /\ exit_code = 1 /\ err = "ValueError"
    /\ cfg.antennas.j = "obj" /\ Len(cfg.antennas.items) = 2

-----------------------------------------------------------------------------
(* C5 *)

NegativeDimension ==
    \/ cfg.pole_height.j = "num" /\ cfg.pole_height.n < 0
    \/ cfg.pole_radius.j = "num" /\ cfg.pole_radius.n < 0
    \/ cfg.antenna_distance_from_pole.j = "num"
          /\ cfg.antenna_distance_from_pole.n < 0
    \/ cfg.antenna_height.j = "num" /\ cfg.antenna_height.n < 0

\* C5: a configuration with a negative dimension is a fatal input error: no
\* primitive is built, no mesh is produced, no output file is written and the
\* process does not end with status 0.
C5_NegativeIsFatal ==
    NegativeDimension =>
        /\ parts = <<>> /\ scene = <<>> /\ ~exported
        /\ exit_code # 0

-----------------------------------------------------------------------------
(* C6 *)

\* Indices of the results of tube() and box_beam() in parts.
Primitives == {j \in DOMAIN parts : parts[j].kind \in {"tube", "box", "None"}}

NoneIn(ps) == {j \in DOMAIN ps : ps[j].kind = "None"}

\* |b - a| < 1e-9
Degenerate(p) == FLt(Norm(VSub(p.b, p.a)), MinLength)

C6_State ==
    /\ pc \notin {"summary", "returned", "exit"} =>
          \A j \in Primitives :
              /\ parts[j].kind = "None" <=> Degenerate(parts[j])
              /\ parts[j].a = parts[j].b => parts[j].kind = "None"
    /\ NoneIn(parts) # {} => (err = "none" /\ pc # "raised")
    /\ (pc \in {"summary", "returned", "exit"} /\ err = "none") =>
          /\ exported
          /\ NoneIn(scene) = {} /\ NoneIn(parts) = {}
    /\ (pc = "exit" /\ Loadable) => (exported /\ exit_code = 0)

C6_Filter ==
    pc = "export" =>
        /\ scene' = SelectSeq(parts, LAMBDA p : p.kind # "None")
        /\ exported'

\* C6: tube and box_beam give None exactly when |b - a| < 1e-9 (so whenever
\* a = b); the concatenation takes every part that is not None, in order, and
\* no None; a build with a degenerate primitive raises nothing and exports.
C6_DegeneratePrimitives == [](C6_State) /\ [][C6_Filter]_vars

\* The export has dropped a degenerate primitive: the pole, the twelve ring
\* parts and the three struts are always appended, and fewer are left.
C6_Witness ==
    /\ pc = "summary" /\ exported
    /\ Len(scene) < 16 + placed

-----------------------------------------------------------------------------
(* C7 *)

\* The unit in the last place of a float, as a float.
Ulp(x) == IF x.m = 0 THEN Zero ELSE [m |-> Pow2[Prec - 1], e |-> x.e - (Prec - 1)]

FMax(x, y) == IF FLt(x, y) THEN y ELSE x

Derived == pc \notin {"load", "raised", "derive"} /\ err = "none"

\* C7 as stated: ring0_height = pole_height, the float difference ring0_height
\* - ring1_height equals 0.6 * antenna_height exactly, and ring0 is strictly
\* above ring1 whenever antenna_height > 0.
C7_GapExact ==
    (Derived /\ ValidCfg) =>
        /\ z_top = pole_h
        /\ z_mid = FSub(pole_h, FMul(GAP_TOP_FACTOR, ant_h))
        /\ FSub(z_top, z_mid) = FMul(GAP_TOP_FACTOR, ant_h)
        /\ FLt(z_mid, z_top)

\* C7, amended: ring0_height = pole_height; ring1_height is pole_height - 0.6 *
\* antenna_height rounded to a float, so ring0_height - ring1_height differs
\* from 0.6 * antenna_height by at most two units in the last place of the
\* larger of the two heights; ring0 is never below ring1 when antenna_height >
\* 0, and strictly above it when the gap is at least one unit in the last
\* place of pole_height.
C7_GapRounded ==
    (Derived /\ ValidCfg) =>
        /\ z_top = pole_h
        /\ z_mid = FSub(pole_h, FMul(GAP_TOP_FACTOR, ant_h))
        /\ FLe(FAbs(FSub(FSub(z_top, z_mid), gap_top)),
               FMul(FromInt(2), Ulp(FMax(FAbs(z_top), FAbs(z_mid)))))
        /\ FLe(z_mid, z_top)
        /\ FGe(gap_top, Ulp(z_top)) => FLt(z_mid, z_top)

\* The derived heights of the example: the difference is not the gap.
C7_Witness ==
    /\ Derived /\ ValidCfg /\ cfg = ExampleCfg
    /\ FSub(z_top, z_mid) # gap_top
    /\ FLt(z_mid, z_top)

-----------------------------------------------------------------------------
(* C8 *)

\* C8: every antenna, whatever its sector and index, has the height
\* (ring0_height + ring1_height) / 2, which lies between the two rings.
C8_MidpointHeight ==
    \A j \in Antennas :
        /\ parts[j].a[3] = FDiv(FAdd(z_top, z_mid), FromInt(2))
        /\ Between(parts[j].a[3], z_mid, z_top)
        /\ \A h \in Antennas : parts[h].a[3] = parts[j].a[3]

\* Antennas of two sectors, one of them with index > 0, are placed, and the
\* rings are at different heights.
C8_Witness ==
    /\ pc \in AfterAntennas /\ z_top # z_mid
    /\ \E j, h \in Antennas : parts[j].site # parts[h].site /\ parts[j].lvl > 0

-----------------------------------------------------------------------------
(* C9 *)

DistinctHorizontal ==
    \A j, h \in Antennas :
        j # h => <<parts[j].a[1], parts[j].a[2]>> # <<parts[h].a[1], parts[h].a[2]>>

\* C9 as stated: in every valid configuration no two antennas have the same
\* horizontal position.
C9_NoSharedPosition == ValidCfg => DistinctHorizontal

\* C9, amended: in every valid configuration whose ring radius
\* antenna_distance_from_pole is at least pole_radius, no two antennas have
\* the same horizontal position.
C9_NoSharedPositionWideRing ==
    (ValidCfg /\ Derived /\ FGe(top_r, pole_r)) => DistinctHorizontal

\* Several antennas in two sectors of a ring no smaller than the pole.
C9_Witness ==
    /\ pc \in AfterAntennas /\ ValidCfg /\ FGe(top_r, pole_r)
    /\ \E i1, i2 \in 1..3 :
          /\ i1 # i2
          /\ Cardinality(AntennasOn(Sides[i1])) >= 2
          /\ Cardinality(AntennasOn(Sides[i2])) >= 2

-----------------------------------------------------------------------------
(* C10 *)

Dot2(u, v) == FAdd(FMul(u[1], v[1]), FMul(u[2], v[2]))

\* Midpoint of ring0 edge i (1..3), measured from the centroid on the axis.
EdgeMidpoint(i) == VDiv(VAdd(ring0[i], ring0[NextVertex(i)]), FromInt(2))

-----------------------------------------------------------------------------
(* C11 *)

\* build() has returned: the summary is printed.
Succeeded == pc \in {"returned", "exit"} /\ err = "none"

\* C11: on every successful build the summary reports, for each of the
\* sectors A, B, C, the number of antennas placed on that sector, and the
\* reported total is the sum of the three reported numbers.
C11_SummaryReportsPlaced ==
    Succeeded =>
        /\ summary.A = Cardinality(AntennasOn("A"))
        /\ summary.B = Cardinality(AntennasOn("B"))
        /\ summary.C = Cardinality(AntennasOn("C"))
        /\ summary.placed = summary.A + summary.B + summary.C

-----------------------------------------------------------------------------
(* C12 *)

\* Indices of the tubes of the lower levels in parts.
LevelTubes == {j \in DOMAIN parts : parts[j].site \in LevelSites}

\* C12: in a valid configuration, whatever num_levels is, every emitted lower
\* level lies at a height z >= 0 and has radii r_in > 0 and r_out > 0.
C12_LevelsWellFormed ==
    ValidCfg =>
        \A j \in LevelTubes :
            /\ parts[j].a[3].m >= 0
            /\ FMul(inner_r0,
                    FSub(FromInt(1), FMul(FromRat(10, 100), FromInt(parts[j].lvl)))).m > 0
            /\ FMul(top_r,
                    FSub(FromInt(1), FMul(FromRat(5, 100), FromInt(parts[j].lvl)))).m > 0
====
